---- MODULE Spec2Model ----
(***************************************************************************)
(* A model of the SmartRent Indigo plugin (Server Plugin/plugin.py).       *)
(*                                                                         *)
(* Two threads of control are modelled: the host's control thread, which   *)
(* runs startup, the device lifecycle handlers and the action handlers,    *)
(* and the asyncio worker thread started by initialize_asyncio, which runs *)
(* submitted coroutines and the push-notification callbacks.               *)
(* update_device_from_smartrent is modelled one remote read and one server *)
(* write at a time, since both threads can be inside it at once.           *)
(***************************************************************************)
EXTENDS Integers, Sequences, FiniteSets, TLC

\* ------------------------------------------------------------------ bounds
MaxStarts == 2      \* deviceStartComm calls made by the host
MaxPush == 1        \* push notifications delivered by the remote service
MaxActions == 1     \* action handler calls made by the host
MaxUpdates == 1     \* edits of a local device's properties
MaxClock == 4       \* how far the wall clock advances, in ticks
MaxSerializations == 2  \* request payloads the session serializes

\* --------------------------------------------------------------- constants
\* int(device.pluginProps.get("smartrent-device", 0)): 0 is "no binding"
NoBinding == 0

LocalDevices == {"L1", "L2"}
Threads == {"ctl", "bg"}

\* The session's device directory: device id -> class of the remote device.
DeviceClass == <<"DoorLock", "Thermostat">>
RemoteIds == DOMAIN DeviceClass
Bindings == RemoteIds \cup {NoBinding}

\* The device types the host may have declared for the two local devices.
DeviceTypeChoices ==
    { [L1 |-> a, L2 |-> "thermostat"] : a \in {"lock", "sensor"} }

\* ------------------------------------------------- one-time codes (54-73)
\* The values pluginPrefs may hold under "tfa-secret".
Secrets == {"S1", "S2"}

\* TOTP(secret) counts time in intervals (pyotp's default interval): the clock
\* of the model ticks TicksPerStep times in one interval.
TicksPerStep == 2
TimeStep(t) == t \div TicksPerStep

\* The code TOTP derives from a secret and an interval counter; codes of
\* different secrets or different intervals differ.
TotpCode(secret, counter) == [secret |-> secret, counter |-> counter]

\* self.tfa_token before startup has built it.
NoToken == [secret |-> "", created |-> 0]

\* ------------------------------------------------------------ remote state
Snap(o, l, b, m, f, s, c, h, t, hu) ==
    [online |-> o, locked |-> l, battery_level |-> b, mode |-> m, fan_mode |-> f,
     operating_state |-> s, cooling_setpoint |-> c, heating_setpoint |-> h,
     current_temp |-> t, current_humidity |-> hu]

LockSnap(o, l, b) == Snap(o, l, b, "off", "auto", "idle", 0, 0, 0, 0)
ThermostatSnap(o, m, f, s, c, h, t, hu) == Snap(o, FALSE, 0, m, f, s, c, h, t, hu)

LockSnapshots ==
    { LockSnap(TRUE, TRUE, 90), LockSnap(TRUE, FALSE, 90), LockSnap(FALSE, FALSE, 15) }

ThermostatSnapshots ==
    { ThermostatSnap(TRUE, "heat", "auto", "heating", 72, 68, 66, 40),
      ThermostatSnap(TRUE, "cool", "on", "cooling", 70, 64, 75, 55),
      ThermostatSnap(FALSE, "auto", "auto", "idle", 74, 66, 70, 45) }

\* Every combination of the attributes a remote device may report when the
\* session is opened.
AllLockSnapshots ==
    { LockSnap(o, l, IF o THEN 90 ELSE 15) : o \in BOOLEAN, l \in BOOLEAN }

AllThermostatSnapshots ==
    { ThermostatSnap(TRUE, m, f, s, IF m = "heat" THEN 72 ELSE 70,
                     IF m = "heat" THEN 68 ELSE 64, IF s = "cooling" THEN 75 ELSE 66,
                     IF f = "on" THEN 55 ELSE 40) :
          m \in {"cool", "heat", "auto", "off"}, f \in {"on", "auto"},
          s \in {"heating", "cooling", "idle"} }
    \cup { ThermostatSnap(FALSE, "auto", "auto", "idle", 74, 66, 70, 45) }

AllSnapshots(r) ==
    IF DeviceClass[r] = "DoorLock" THEN AllLockSnapshots ELSE AllThermostatSnapshots

Snapshots(r) == IF DeviceClass[r] = "DoorLock" THEN LockSnapshots ELSE ThermostatSnapshots

InitialSnapshot(r) ==
    IF DeviceClass[r] = "DoorLock"
    THEN LockSnap(TRUE, TRUE, 90)
    ELSE ThermostatSnap(TRUE, "heat", "auto", "heating", 72, 68, 66, 40)

\* ------------------------------------------------------ the mapping tables
SMARTRENT_INDIGO_HVAC_FAN_MODES == [on |-> "AlwaysOn", auto |-> "Auto"]
INDIGO_SMARTRENT_HVAC_FAN_MODES == [AlwaysOn |-> "on", Auto |-> "auto"]
\* A table that shows the remote mode auto as cooling.
SMARTRENT_INDIGO_HVAC_MODES_AutoAsCool ==
    [cool |-> "Cool", heat |-> "Heat", auto |-> "Cool", off |-> "Off"]

SMARTRENT_INDIGO_HVAC_MODES ==
    [cool |-> "Cool", heat |-> "Heat", auto |-> "HeatCool", off |-> "Off"]
\* A table that also sends the host's program modes to the remote service.
INDIGO_SMARTRENT_HVAC_MODES_WithProgram ==
    [Cool |-> "cool", Heat |-> "heat", HeatCool |-> "auto", Off |-> "off",
     ProgramHeat |-> "heat"]

INDIGO_SMARTRENT_HVAC_MODES ==
    [Cool |-> "cool", Heat |-> "heat", HeatCool |-> "auto", Off |-> "off"]

\* ------------------------------------------------- the local state vector
DefaultVec ==
    [online |-> FALSE, batteryLevel |-> 0, onOffState |-> FALSE, lockStatus |-> "",
     stateImage |-> "None", humidityInput1 |-> 0, hvacCoolerIsOn |-> FALSE,
     hvacFanMode |-> "Auto", hvacHeaterIsOn |-> FALSE, hvacOperationMode |-> "Off",
     setpointCool |-> 0, setpointHeat |-> 0, temperatureInput1 |-> 0]

Keys == DOMAIN DefaultVec

\* The keys of state_updates when updateStatesOnServer is reached (line 403).
BatchKeys(type) ==
    CASE type = "thermostat" ->
            {"online", "humidityInput1", "hvacCoolerIsOn", "hvacFanMode", "hvacHeaterIsOn",
             "hvacOperationMode", "setpointCool", "setpointHeat", "temperatureInput1"}
      [] type = "lock" -> {"online", "batteryLevel", "onOffState"}
      [] OTHER -> {"online"}

\* The entries of the state_updates.update({...}) literal, in evaluation order.
ReadKeys(type) ==
    CASE type = "thermostat" ->
            <<"humidityInput1", "hvacCoolerIsOn", "hvacFanMode", "hvacHeaterIsOn",
              "hvacOperationMode", "setpointCool", "setpointHeat", "temperatureInput1">>
      [] type = "lock" -> <<"batteryLevel", "onOffState">>
      [] OTHER -> <<>>

\* The value the entry for key k takes when the remote record reads as s.
ReadValue(k, s) ==
    CASE k = "online" -> s.online
      [] k = "humidityInput1" -> s.current_humidity
      [] k = "hvacCoolerIsOn" -> (s.operating_state = "cooling")
      [] k = "hvacFanMode" -> SMARTRENT_INDIGO_HVAC_FAN_MODES[s.fan_mode]
      [] k = "hvacHeaterIsOn" -> (s.operating_state = "heating")
      [] k = "hvacOperationMode" -> SMARTRENT_INDIGO_HVAC_MODES[s.mode]
      [] k = "setpointCool" -> s.cooling_setpoint
      [] k = "setpointHeat" -> s.heating_setpoint
      [] k = "temperatureInput1" -> s.current_temp
      [] k = "batteryLevel" -> s.battery_level
      [] k = "onOffState" -> s.locked

\* isinstance(smartrent_device, ...) checks of update_device_from_smartrent.
TypeMismatch(type, class) ==
    \/ type = "thermostat" /\ class # "Thermostat"
    \/ type = "lock" /\ class # "DoorLock"

\* A resolver that falls back on the first device of the directory when no
\* device matches (first(..., default)).
MatchingDevicesOrFirst(id) ==
    IF id \in RemoteIds THEN {id} ELSE { r \in RemoteIds : \A q \in RemoteIds : r <= q }

\* first(filter(lambda d: d._device_id == id, devices)): the matching devices;
\* first raises ValueError when there is none.
MatchingDevices(id) == { r \in RemoteIds : r = id }

\* ----------------------------------------------------------------- frames
NullSnap == Snap(FALSE, FALSE, 0, "off", "auto", "idle", 0, 0, 0, 0)

NoFrame ==
    [active |-> FALSE, dev |-> "", rdev |-> NoBinding, pc |-> "", idx |-> 0,
     acc |-> DefaultVec, br |-> FALSE, snap0 |-> NullSnap]

NewFrame(d, r) == [NoFrame EXCEPT !.active = TRUE, !.dev = d, !.rdev = r, !.pc = "online"]

IdleCtl == [op |-> "idle", pc |-> "", dev |-> "", rdev |-> NoBinding, fut |-> 0]

NoArg == [b |-> FALSE, s |-> "", n |-> 0]

\* A handler call as the host sees it: how it ended, what it returned or
\* raised, and the remote call it submitted (kind "" when it submitted none).
NoRequest == [kind |-> "", arg |-> NoArg]
NoCall == [handler |-> "", dev |-> "", outcome |-> "", value |-> "", request |-> NoRequest]
Returned(h, d, v) == [NoCall EXCEPT !.handler = h, !.dev = d, !.outcome = "returned", !.value = v]
Raised(h, d, e) == [NoCall EXCEPT !.handler = h, !.dev = d, !.outcome = "raised", !.value = e]
Running(h, d) == [NoCall EXCEPT !.handler = h, !.dev = d, !.outcome = "running"]

NotApplied == [rdev |-> NoBinding, snap |-> NullSnap]

VARIABLES
    configured,     \* email, password and tfa-secret are all set in pluginPrefs
    plugin,         \* the host's view of the plugin: init, started, failed, stopped
    api,            \* self.api: "unset" until startup stores the session
    stopThread,     \* self.stopThread
    worker,         \* the asyncio thread: created, running, exited
    ops,            \* the futures returned by Plugin.run, in submission order
    log,            \* the entries written to self.logger at level info and above
    deviceTypeId,   \* device.deviceTypeId of each local device
    props,          \* device.pluginProps["smartrent-device"] of each local device
    comm,           \* the host's view of each local device: stopped, starting, started
    vec,            \* the state vector of each local device on the server
    remote,         \* the attributes of each remote device
    cbs,            \* _update_callback_funcs of each remote device
    updater,        \* whether start_updater has run for each remote device
    ctl,            \* the handler the control thread is in
    bg,             \* the callbacks the worker thread still has to run for a push
    sync,           \* the update_device_from_smartrent call of each thread
    last,           \* the handler call the host made last, and how it ended
    applied,        \* the remote record behind the last completed update of each device
    tfa_secret,     \* pluginPrefs["tfa-secret"]
    hostCalls,      \* how many action and dialog calls the host makes in this run
    tfa_token,      \* self.tfa_token, the OTP object
    clock,          \* the wall clock, in ticks
    sent,           \* the one-time codes serialized into requests, with the tick of each
    nStarts, nPush, nActions, nUpdates

vars ==
    <<configured, plugin, api, stopThread, worker, ops, log, deviceTypeId, props, comm,
      vec, remote, cbs, updater, ctl, bg, sync, last, applied,
      tfa_secret, hostCalls, tfa_token, clock, sent,
      nStarts, nPush, nActions, nUpdates>>

hostVars == <<configured, deviceTypeId, tfa_secret, hostCalls>>
otpVars == <<tfa_token, clock, sent>>
counters == <<nStarts, nPush, nActions, nUpdates>>

InitPlugin ==
    /\ configured \in BOOLEAN
    /\ plugin = "init"
    /\ api = "unset"
    /\ stopThread = FALSE
    /\ worker = "created"
    /\ ops = <<>>
    /\ log = {}
    /\ deviceTypeId \in DeviceTypeChoices
    /\ props \in [LocalDevices -> Bindings]
    /\ comm = [d \in LocalDevices |-> "stopped"]
    /\ vec = [d \in LocalDevices |-> DefaultVec]
    /\ remote = [r \in RemoteIds |-> InitialSnapshot(r)]
    /\ cbs = [r \in RemoteIds |-> <<>>]
    /\ updater = [r \in RemoteIds |-> FALSE]
    /\ ctl = IdleCtl
    /\ bg = <<>>
    /\ sync = [t \in Threads |-> NoFrame]
    /\ last = NoCall
    /\ applied = [d \in LocalDevices |-> NotApplied]
    /\ tfa_token = NoToken
    /\ clock = 0
    /\ sent = <<>>
    /\ nStarts = 0 /\ nPush = 0 /\ nActions = 0 /\ nUpdates = 0

Init == InitPlugin /\ tfa_secret = "S1" /\ hostCalls = MaxActions


\* ------------------------------------------------------- Plugin.run (152-166)
\* asyncio.run_coroutine_threadsafe(coro, loop): the coroutine is queued on the
\* loop and its future returned. The loop is never closed, so this succeeds
\* whatever the worker is doing. The arguments of the remote call stay with the
\* record of the handler call that made it (last.request).
run(origin, kind, r) ==
    Append(ops, [origin |-> origin, kind |-> kind, rdev |-> r, status |-> "queued"])

\* A status request that waits for the fetched state before it returns.
AwaitsResultOfFetch(handler) == handler \in {"startup", "actionControlUniversal"}

\* Whether a handler calls .result() on the future run returned to it.
AwaitsResult(handler) == handler = "startup"

\* The control thread after a handler has submitted its last operation.
AfterSubmit(handler, d, r) ==
    IF AwaitsResult(handler)
    THEN [op |-> handler, pc |-> "result", dev |-> d, rdev |-> r, fut |-> Len(ops) + 1]
    ELSE IdleCtl

Done(status) == status \in {"ok", "exception"}

BgIdle == bg = <<>> /\ ~sync["bg"].active

\* -------------------------------------------- OTP and OTPEncoder (54-73)
\* OTP.__init__: the object keeps the generator of its secret (created is the
\* tick of the construction; the object itself stores no time and no code).
OTP(secret) == [secret |-> secret, created |-> clock]

\* A credential object that computes its code once, when it is constructed.
OTP_strAtConstruction(o) == TotpCode(o.secret, TimeStep(o.created))

\* OTP.__str__: self._totp.now(), the code of the current interval.
OTP_str(o) == TotpCode(o.secret, TimeStep(clock))

\* OTPEncoder.default for an OTP object (70-71).
OTPEncoder_default(o) == OTP_str(o)

\* The clock advances by one tick.
Tick ==
    /\ clock < MaxClock
    /\ clock' = clock + 1
    /\ UNCHANGED <<hostVars, tfa_token, sent, plugin, api, stopThread, worker, ops, log,
                   props, comm, vec, remote, cbs, updater, ctl, bg, sync, last, applied,
                   counters>>

\* The session serializes a request payload that embeds self.tfa_token, with
\* json_serialize = partial(dumps, cls=OTPEncoder) (111): during the login,
\* and again whenever the session authenticates anew with the same object.
Serialize ==
    /\ worker = "running" /\ BgIdle
    /\ \E i \in DOMAIN ops : ops[i].kind = "async_login" /\ ops[i].status # "queued"
    /\ Len(sent) < MaxSerializations
    /\ sent' = Append(sent, [code |-> OTPEncoder_default(tfa_token), at |-> clock])
    /\ UNCHANGED <<hostVars, tfa_token, clock, plugin, api, stopThread, worker, ops, log,
                   props, comm, vec, remote, cbs, updater, ctl, bg, sync, last, applied,
                   counters>>

\* ------------------------------------------------------- startup (91-120)
Startup ==
    /\ plugin = "init" /\ ctl = IdleCtl
    /\ IF ~configured
       THEN /\ log' = log \cup {<<"error", "not configured", "">>}
            /\ plugin' = "started"
            /\ last' = Returned("startup", "", "None")
            /\ UNCHANGED <<ops, ctl, tfa_token>>
       ELSE /\ tfa_token' = OTP(tfa_secret)
            /\ log' = log \cup {<<"info", "connecting", "">>}
            /\ ops' = run("startup", "async_login", NoBinding)
            /\ ctl' = AfterSubmit("startup", "", NoBinding)
            /\ last' = Running("startup", "")
            /\ UNCHANGED plugin
    /\ UNCHANGED <<hostVars, clock, sent, api, stopThread, worker, props, comm, vec, remote, cbs,
                   updater, bg, sync, applied, counters>>

\* self.api = api_login.result(): blocks until the login future is done, then
\* stores the session or lets the login's exception escape from startup.
StartupResult ==
    /\ ctl.op = "startup" /\ ctl.pc = "result"
    /\ Done(ops[ctl.fut].status)
    /\ IF ops[ctl.fut].status = "ok"
       THEN /\ api' = "session"
            /\ log' = log \cup {<<"info", "connected", "">>}
            /\ plugin' = "started"
            /\ last' = Returned("startup", "", "None")
       ELSE /\ plugin' = "failed"
            /\ last' = Raised("startup", "", "LoginError")
            /\ UNCHANGED <<api, log>>
    /\ ctl' = IdleCtl
    /\ UNCHANGED <<hostVars, otpVars, stopThread, worker, ops, props, comm, vec, remote, cbs,
                   updater, bg, sync, applied, counters>>

\* The host sets stopThread when it asks the plugin to stop (read at line 146).
StopConcurrentThread ==
    /\ plugin \in {"started", "failed"} /\ ctl = IdleCtl
    /\ ~stopThread
    /\ stopThread' = TRUE
    /\ UNCHANGED <<hostVars, otpVars, plugin, api, worker, ops, log, props, comm, vec, remote, cbs,
                   updater, ctl, bg, sync, last, applied, counters>>

\* shutdown (122-126): logs at debug level and returns.
Shutdown ==
    /\ plugin \in {"started", "failed"} /\ ctl = IdleCtl
    /\ stopThread
    /\ plugin' = "stopped"
    /\ last' = Returned("shutdown", "", "None")
    /\ UNCHANGED <<hostVars, otpVars, api, stopThread, worker, ops, log, props, comm, vec, remote,
                   cbs, updater, ctl, bg, sync, applied, counters>>

\* ------------------------------------------- initialize_asyncio (132-150)
\* The thread started at line 150 enters loop.run_until_complete(async_run()).
WorkerStart ==
    /\ worker = "created"
    /\ worker' = "running"
    /\ UNCHANGED <<hostVars, otpVars, plugin, api, stopThread, ops, log, props, comm, vec, remote,
                   cbs, updater, ctl, bg, sync, last, applied, counters>>

\* One turn of async_run: the sleep ends and stopThread is tested; when it is
\* set the loop is left, run_until_complete returns and the thread ends.
WorkerPoll ==
    /\ worker = "running" /\ BgIdle
    /\ worker' = IF stopThread THEN "exited" ELSE "running"
    /\ UNCHANGED <<hostVars, otpVars, plugin, api, stopThread, ops, log, props, comm, vec, remote,
                   cbs, updater, ctl, bg, sync, last, applied, counters>>

\* A state-image call that flips the image the server shows.
SyncImageToggle(t) ==
    /\ sync[t].active /\ sync[t].pc = "image"
    /\ vec' = [vec EXCEPT ![sync[t].dev].stateImage =
                    IF @ = "Locked" THEN "Unlocked" ELSE "Locked"]
    /\ sync' = [sync EXCEPT ![t].pc = "status"]
    /\ UNCHANGED <<hostVars, otpVars, plugin, api, stopThread, worker, ops, log, props,
                   comm, remote, cbs, updater, ctl, bg, last, applied, counters>>

\* A loop that starts the operation submitted last (a stack of ready handles).
NextQueuedNewest ==
    LET queued == { i \in DOMAIN ops : ops[i].status = "queued" }
    IN  IF queued = {} THEN 0 ELSE CHOOSE i \in queued : \A j \in queued : i >= j

\* The index of the operation the loop starts next: the oldest queued one
\* (call_soon_threadsafe appends to the loop's ready queue, which is run in
\* order).
NextQueued ==
    LET queued == { i \in DOMAIN ops : ops[i].status = "queued" }
    IN  IF queued = {} THEN 0 ELSE CHOOSE i \in queued : \A j \in queued : i <= j

\* The loop runs the first step of the oldest queued coroutine. _start_updater
\* (207-208) has no await: it calls start_updater and is done within that step.
BeginOp ==
    /\ worker = "running" /\ BgIdle
    /\ NextQueued # 0
    /\ LET i == NextQueued IN
        IF ops[i].kind = "start_updater"
        THEN /\ ops' = [ops EXCEPT ![i].status = "ok"]
             /\ updater' = [updater EXCEPT ![ops[i].rdev] = TRUE]
        ELSE /\ ops' = [ops EXCEPT ![i].status = "running"]
             /\ UNCHANGED updater
    /\ UNCHANGED <<hostVars, otpVars, plugin, api, stopThread, worker, log, props, comm, vec,
                   remote, cbs, ctl, bg, sync, last, applied, counters>>

\* A remote call that was suspended on I/O finishes, with a result or with an
\* exception, which run_coroutine_threadsafe stores in the future: nothing is
\* logged for it.
CompleteOp(i, res) ==
    /\ worker = "running" /\ BgIdle
    /\ ops[i].status = "running"
    /\ ops' = [ops EXCEPT ![i].status = res]
    /\ UNCHANGED <<hostVars, otpVars, plugin, api, stopThread, worker, log, props, comm, vec,
                   remote, cbs, updater, ctl, bg, sync, last, applied, counters>>


\* ---------------------------------- update_device_from_smartrent (363-403)
\* The steps of one call, on thread t. What the caller does when the call
\* returns or raises is part of the step that ends it: deviceStartComm (196)
\* does not catch, so a TypeError leaves it; a callback's caller is the remote
\* device's notification loop, which the exception leaves as well.

\* 371-375 / 387-389: the online flag is read, then the device type is tested
\* against the class of the remote device.
SyncOnline(t) ==
    /\ sync[t].active /\ sync[t].pc = "online"
    /\ LET f == sync[t]
           d == f.dev
           type == deviceTypeId[d]
           g == [f EXCEPT !.acc.online = ReadValue("online", remote[f.rdev]),
                          !.snap0 = remote[f.rdev]]
       IN  IF TypeMismatch(type, DeviceClass[f.rdev])
           THEN /\ sync' = [sync EXCEPT ![t] = NoFrame]
                /\ IF t = "ctl"
                   THEN /\ ctl' = IdleCtl
                        /\ last' = Raised("deviceStartComm", d, "TypeError")
                        /\ comm' = [comm EXCEPT ![d] = "stopped"]
                        /\ UNCHANGED bg
                   ELSE /\ bg' = <<>>
                        /\ UNCHANGED <<ctl, last, comm>>
           ELSE /\ sync' = [sync EXCEPT ![t] =
                        IF Len(ReadKeys(type)) = 0
                        THEN [g EXCEPT !.pc = "commit"]
                        ELSE [g EXCEPT !.pc = "read", !.idx = 1]]
                /\ UNCHANGED <<ctl, last, comm, bg>>
    /\ UNCHANGED <<hostVars, otpVars, plugin, api, stopThread, worker, ops, log, props, vec, remote,
                   cbs, updater, applied, counters>>

\* 377-386 / 391-394: one entry of the dict literal is evaluated.
SyncRead(t) ==
    /\ sync[t].active /\ sync[t].pc = "read"
    /\ LET f == sync[t]
           type == deviceTypeId[f.dev]
           k == ReadKeys(type)[f.idx]
           g == [f EXCEPT !.acc[k] = ReadValue(k, remote[f.rdev])]
       IN  sync' = [sync EXCEPT ![t] =
                IF f.idx < Len(ReadKeys(type))
                THEN [g EXCEPT !.idx = f.idx + 1]
                ELSE [g EXCEPT !.idx = 0, !.pc = IF type = "lock" THEN "branch" ELSE "commit"]]
    /\ UNCHANGED <<hostVars, otpVars, plugin, api, stopThread, worker, ops, log, props, comm, vec,
                   remote, cbs, updater, ctl, bg, last, applied, counters>>

\* 396: get_locked() is read a second time to choose the branch.
SyncBranch(t) ==
    /\ sync[t].active /\ sync[t].pc = "branch"
    /\ sync' = [sync EXCEPT ![t].br = remote[sync[t].rdev].locked, ![t].pc = "image"]
    /\ UNCHANGED <<hostVars, otpVars, plugin, api, stopThread, worker, ops, log, props, comm, vec,
                   remote, cbs, updater, ctl, bg, last, applied, counters>>

\* 397 / 400: updateStateImageOnServer.
SyncImage(t) ==
    /\ sync[t].active /\ sync[t].pc = "image"
    /\ vec' = [vec EXCEPT ![sync[t].dev].stateImage =
                    IF sync[t].br THEN "Locked" ELSE "Unlocked"]
    /\ sync' = [sync EXCEPT ![t].pc = "status"]
    /\ UNCHANGED <<hostVars, otpVars, plugin, api, stopThread, worker, ops, log, props, comm,
                   remote, cbs, updater, ctl, bg, last, applied, counters>>

\* A status text that names the opposite state.
LockStatusTextSwapped(locked) == IF locked THEN "unlocked" ELSE "locked"

\* The value of lockStatus in the two branches (398, 401).
LockStatusText(locked) == IF locked THEN "locked" ELSE "unlocked"

\* 398 / 401: updateStateOnServer("lockStatus", ...).
SyncStatus(t) ==
    /\ sync[t].active /\ sync[t].pc = "status"
    /\ vec' = [vec EXCEPT ![sync[t].dev].lockStatus = LockStatusText(sync[t].br)]
    /\ sync' = [sync EXCEPT ![t].pc = "commit"]
    /\ UNCHANGED <<hostVars, otpVars, plugin, api, stopThread, worker, ops, log, props, comm,
                   remote, cbs, updater, ctl, bg, last, applied, counters>>

\* A batch write that also reports the battery of the remote device for the
\* device types that read none.
SyncCommitWithBattery(t) ==
    /\ sync[t].active /\ sync[t].pc = "commit"
    /\ LET f == sync[t]
           d == f.dev
           type == deviceTypeId[d]
       IN  /\ vec' = [vec EXCEPT ![d] =
                    [k \in Keys |->
                        IF k \in BatchKeys(type) THEN f.acc[k]
                        ELSE IF k = "batteryLevel" /\ type \notin {"lock", "thermostat"}
                        THEN remote[f.rdev].battery_level
                        ELSE vec[d][k]]]
           /\ applied' = [applied EXCEPT ![d] = [rdev |-> f.rdev, snap |-> f.snap0]]
    /\ sync' = [sync EXCEPT ![t] = NoFrame]
    /\ ctl' = IF t = "ctl" THEN [ctl EXCEPT !.pc = "register"] ELSE ctl
    /\ UNCHANGED <<hostVars, otpVars, plugin, api, stopThread, worker, ops, log, props,
                   comm, remote, cbs, updater, bg, last, counters>>

\* 403: updateStatesOnServer writes every entry of state_updates at once, and
\* the call returns to deviceStartComm (198) or to the notification loop.
SyncCommit(t) ==
    /\ sync[t].active /\ sync[t].pc = "commit"
    /\ LET f == sync[t]
           d == f.dev
       IN  /\ vec' = [vec EXCEPT ![d] =
                    [k \in Keys |-> IF k \in BatchKeys(deviceTypeId[d])
                                    THEN f.acc[k] ELSE vec[d][k]]]
           /\ applied' = [applied EXCEPT ![d] = [rdev |-> f.rdev, snap |-> f.snap0]]
    /\ sync' = [sync EXCEPT ![t] = NoFrame]
    /\ ctl' = IF t = "ctl" THEN [ctl EXCEPT !.pc = "register"] ELSE ctl
    /\ UNCHANGED <<hostVars, otpVars, plugin, api, stopThread, worker, ops, log, props, comm,
                   remote, cbs, updater, bg, last, counters>>

\* ------------------------------------------------ deviceStartComm (172-211)
\* 189-196: the binding is resolved; without a match the error is logged and
\* False returned, otherwise the initial update is entered.
DeviceStartComm(d) ==
    /\ plugin = "started" /\ ctl = IdleCtl
    /\ comm[d] = "stopped"
    /\ nStarts < MaxStarts
    /\ nStarts' = nStarts + 1
    /\ IF api = "unset"
       THEN /\ last' = Raised("deviceStartComm", d, "AttributeError")
            /\ UNCHANGED <<log, ctl, sync, comm>>
       ELSE IF MatchingDevices(props[d]) = {}
       THEN /\ log' = log \cup {<<"error", "no device linked", d>>}
            /\ last' = Returned("deviceStartComm", d, "False")
            /\ UNCHANGED <<ctl, sync, comm>>
       ELSE LET r == CHOOSE x \in MatchingDevices(props[d]) : TRUE IN
            /\ ctl' = [op |-> "deviceStartComm", pc |-> "sync", dev |-> d, rdev |-> r,
                       fut |-> 0]
            /\ sync' = [sync EXCEPT !["ctl"] = NewFrame(d, r)]
            /\ comm' = [comm EXCEPT ![d] = "starting"]
            /\ last' = Running("deviceStartComm", d)
            /\ UNCHANGED log
    /\ UNCHANGED <<hostVars, otpVars, plugin, api, stopThread, worker, ops, props, vec, remote, cbs,
                   updater, bg, applied, nPush, nActions, nUpdates>>

\* 199-204: the update handler, bound to this device and this remote device,
\* is added to the remote device's callbacks.
DeviceStartCommRegister ==
    /\ ctl.op = "deviceStartComm" /\ ctl.pc = "register"
    /\ cbs' = [cbs EXCEPT ![ctl.rdev] = Append(@, ctl.dev)]
    /\ ctl' = [ctl EXCEPT !.pc = "submit"]
    /\ UNCHANGED <<hostVars, otpVars, plugin, api, stopThread, worker, ops, log, props, comm, vec,
                   remote, updater, bg, sync, last, applied, counters>>

\* 207-211: _start_updater is submitted and the method ends without a return
\* statement.
DeviceStartCommSubmit ==
    /\ ctl.op = "deviceStartComm" /\ ctl.pc = "submit"
    /\ ops' = run("deviceStartComm", "start_updater", ctl.rdev)
    /\ ctl' = AfterSubmit("deviceStartComm", ctl.dev, ctl.rdev)
    /\ IF AwaitsResult("deviceStartComm")
       THEN UNCHANGED <<last, comm>>
       ELSE /\ last' = Returned("deviceStartComm", ctl.dev, "None")
            /\ comm' = [comm EXCEPT ![ctl.dev] = "started"]
    /\ UNCHANGED <<hostVars, otpVars, plugin, api, stopThread, worker, log, props, vec, remote,
                   cbs, updater, bg, sync, applied, counters>>

\* ------------------------------------------------- deviceStopComm (213-229)
\* Logs at debug level and returns: the callbacks stay registered.
DeviceStopComm(d) ==
    /\ plugin = "started" /\ ctl = IdleCtl
    /\ comm[d] = "started"
    /\ comm' = [comm EXCEPT ![d] = "stopped"]
    /\ last' = Returned("deviceStopComm", d, "None")
    /\ UNCHANGED <<hostVars, otpVars, plugin, api, stopThread, worker, ops, log, props, vec, remote,
                   cbs, updater, ctl, bg, sync, applied, counters>>

\* ------------------------------------ didDeviceCommPropertyChange (231-254)
didDeviceCommPropertyChange(original, updated) == original # updated

\* The host replaces a device's properties; when the binding changed it stops
\* the device (deviceStopComm) and will start it again.
DeviceUpdated(d, b) ==
    /\ plugin = "started" /\ ctl = IdleCtl
    /\ nUpdates < MaxUpdates
    /\ nUpdates' = nUpdates + 1
    /\ props' = [props EXCEPT ![d] = b]
    /\ IF didDeviceCommPropertyChange(props[d], b) /\ comm[d] = "started"
       THEN /\ comm' = [comm EXCEPT ![d] = "stopped"]
            /\ last' = Returned("deviceStopComm", d, "None")
       ELSE UNCHANGED <<comm, last>>
    /\ UNCHANGED <<hostVars, otpVars, plugin, api, stopThread, worker, ops, log, vec, remote, cbs,
                   updater, ctl, bg, sync, applied, nStarts, nPush, nActions>>

\* ------------------------------------------------------ push notifications
\* The remote service reports new attributes of device r: the record is
\* replaced and every registered callback is due, in registration order.
Push(r, s) ==
    /\ worker = "running" /\ BgIdle
    /\ updater[r]
    /\ nPush < MaxPush
    /\ s # remote[r]
    /\ nPush' = nPush + 1
    /\ remote' = [remote EXCEPT ![r] = s]
    /\ bg' = [i \in DOMAIN cbs[r] |-> [dev |-> cbs[r][i], rdev |-> r]]
    /\ UNCHANGED <<hostVars, otpVars, plugin, api, stopThread, worker, ops, log, props, comm, vec,
                   cbs, updater, ctl, sync, last, applied, nStarts, nActions, nUpdates>>

\* The remote service reports an event of device r that changes none of the
\* attributes read here: every registered callback is due all the same.
Renotify(r) ==
    /\ worker = "running" /\ BgIdle
    /\ updater[r]
    /\ nPush < MaxPush
    /\ nPush' = nPush + 1
    /\ bg' = [i \in DOMAIN cbs[r] |-> [dev |-> cbs[r][i], rdev |-> r]]
    /\ UNCHANGED <<hostVars, otpVars, plugin, api, stopThread, worker, ops, log, props,
                   comm, vec, remote, cbs, updater, ctl, sync, last, applied, nStarts,
                   nActions, nUpdates>>

\* The next due callback is called: partial(update_device_from_smartrent,
\* device=..., smartrent_device=...) of lines 199-203.
Callback ==
    /\ bg # <<>> /\ ~sync["bg"].active
    /\ sync' = [sync EXCEPT !["bg"] = NewFrame(Head(bg).dev, Head(bg).rdev)]
    /\ bg' = Tail(bg)
    /\ UNCHANGED <<hostVars, otpVars, plugin, api, stopThread, worker, ops, log, props, comm, vec,
                   remote, cbs, updater, ctl, last, applied, counters>>


\* ------------------------------------------------- action handlers (260-335)
\* How a handler call ends, as seen by the host.
Submit(h, d, r, kind, arg) ==
    /\ ops' = run(h, kind, r)
    /\ ctl' = AfterSubmit(h, d, r)
    /\ last' = [(IF AwaitsResult(h) THEN Running(h, d) ELSE Returned(h, d, "None"))
                 EXCEPT !.request = [kind |-> kind, arg |-> arg]]
    /\ UNCHANGED log

LogAndReturn(h, d, entry) ==
    /\ log' = log \cup {entry}
    /\ last' = Returned(h, d, "None")
    /\ UNCHANGED <<ops, ctl>>

Return(h, d) ==
    /\ last' = Returned(h, d, "None")
    /\ UNCHANGED <<ops, log, ctl>>

Escape(h, d, e) ==
    /\ last' = Raised(h, d, e)
    /\ UNCHANGED <<ops, log, ctl>>

\* The inputs the host passes to the handlers.
DeviceActions == {"TurnOn", "TurnOff", "Toggle"}
UniversalActions == {"RequestStatus", "Beep"}
HvacModeInputs == {"Cool", "Heat", "HeatCool", "Off", "ProgramHeat"}
FanModeInputs == {"AlwaysOn", "Auto", "Unsupported"}
Cmd(a, m, v) == [thermostatAction |-> a, actionMode |-> m, actionValue |-> v]
ThermostatCommands ==
    { Cmd("SetHvacMode", m, 0) : m \in HvacModeInputs }
    \cup { Cmd("SetFanMode", m, 0) : m \in FanModeInputs }
    \cup { Cmd("SetCoolSetpoint", "", 70), Cmd("SetHeatSetpoint", "", 68),
           Cmd("RequestStatusAll", "", 0) }
    \cup { Cmd(a, "", v) : a \in {"DecreaseCoolSetpoint", "IncreaseCoolSetpoint",
                                  "DecreaseHeatSetpoint", "IncreaseHeatSetpoint"},
                           v \in {1, 2} }

\* get_smartrent_device_for_device as the action handlers call it, without a
\* try: "AttributeError" when self.api was never set, "ValueError" from first
\* when no device matches, otherwise "".
ResolveError(d) ==
    IF api = "unset" THEN "AttributeError"
    ELSE IF MatchingDevices(props[d]) = {} THEN "ValueError"
    ELSE ""

Resolved(d) == CHOOSE r \in MatchingDevices(props[d]) : TRUE

\* A handler that takes whatever device the binding resolves to (no class
\* test before the command is sent).
IsInstanceAny(r, class) == r \in RemoteIds

\* isinstance(smartrent_device, SmartRentDoorLock / SmartRentThermostat).
IsInstance(r, class) == DeviceClass[r] = class

\* 260-279
actionControlDevice(d, a) ==
    /\ plugin = "started" /\ ctl = IdleCtl
    /\ nActions < hostCalls
    /\ nActions' = nActions + 1
    /\ LET h == "actionControlDevice" IN
       IF ResolveError(d) # ""
       THEN Escape(h, d, ResolveError(d))
       ELSE IF deviceTypeId[d] # "lock"
       THEN Return(h, d)
       ELSE IF ~IsInstance(Resolved(d), "DoorLock")
       THEN LogAndReturn(h, d, <<"error", "not a lock", d>>)
       ELSE IF a \in {"TurnOn", "TurnOff"}
       THEN Submit(h, d, Resolved(d), "async_set_locked", [NoArg EXCEPT !.b = (a = "TurnOn")])
       ELSE Return(h, d)
    /\ UNCHANGED <<hostVars, otpVars, plugin, api, stopThread, worker, props, comm, vec, remote, cbs,
                   updater, bg, sync, applied, nStarts, nPush, nUpdates>>

\* 281-292
actionControlUniversal(d, a) ==
    /\ plugin = "started" /\ ctl = IdleCtl
    /\ nActions < hostCalls
    /\ nActions' = nActions + 1
    /\ LET h == "actionControlUniversal" IN
       IF ResolveError(d) # ""
       THEN Escape(h, d, ResolveError(d))
       ELSE IF a = "RequestStatus"
       THEN Submit(h, d, Resolved(d), "_async_fetch_state", NoArg)
       ELSE Return(h, d)
    /\ UNCHANGED <<hostVars, otpVars, plugin, api, stopThread, worker, props, comm, vec, remote, cbs,
                   updater, bg, sync, applied, nStarts, nPush, nUpdates>>

\* 307-335: the remote call a thermostat command turns into (kind "" when it
\* turns into none) and the warning it logs (warning "" when it logs none).
ThermostatRequest(d, c) ==
    LET call(kind, arg) == [kind |-> kind, arg |-> arg, warning |-> ""]
        warn(w) == [kind |-> "", arg |-> NoArg, warning |-> w]
        a == c.thermostatAction
    IN  CASE a = "SetHvacMode" ->
                IF c.actionMode \in DOMAIN INDIGO_SMARTRENT_HVAC_MODES
                THEN call("async_set_mode",
                          [NoArg EXCEPT !.s = INDIGO_SMARTRENT_HVAC_MODES[c.actionMode]])
                ELSE warn("unsupported hvac mode")
          [] a = "SetFanMode" ->
                IF c.actionMode \in DOMAIN INDIGO_SMARTRENT_HVAC_FAN_MODES
                THEN call("async_set_fan_mode",
                          [NoArg EXCEPT !.s = INDIGO_SMARTRENT_HVAC_FAN_MODES[c.actionMode]])
                ELSE warn("unsupported fan mode")
          [] a = "SetCoolSetpoint" ->
                call("async_set_cooling_setpoint", [NoArg EXCEPT !.n = c.actionValue])
          [] a = "SetHeatSetpoint" ->
                call("async_set_heating_setpoint", [NoArg EXCEPT !.n = c.actionValue])
          [] a = "DecreaseCoolSetpoint" ->
                call("async_set_cooling_setpoint",
                     [NoArg EXCEPT !.n = vec[d].setpointCool - c.actionValue])
          [] a = "IncreaseCoolSetpoint" ->
                call("async_set_cooling_setpoint",
                     [NoArg EXCEPT !.n = vec[d].setpointCool + c.actionValue])
          [] a = "DecreaseHeatSetpoint" ->
                call("async_set_heating_setpoint",
                     [NoArg EXCEPT !.n = vec[d].setpointHeat - c.actionValue])
          [] a = "IncreaseHeatSetpoint" ->
                call("async_set_heating_setpoint",
                     [NoArg EXCEPT !.n = vec[d].setpointHeat + c.actionValue])
          [] OTHER -> warn("")

\* 294-335
actionControlThermostat(d, c) ==
    /\ plugin = "started" /\ ctl = IdleCtl
    /\ nActions < hostCalls
    /\ nActions' = nActions + 1
    /\ LET h == "actionControlThermostat"
           q == ThermostatRequest(d, c)
       IN  IF ResolveError(d) # ""
           THEN Escape(h, d, ResolveError(d))
           ELSE IF ~IsInstance(Resolved(d), "Thermostat")
           THEN LogAndReturn(h, d, <<"error", "not a thermostat", d>>)
           ELSE IF q.kind # ""
           THEN Submit(h, d, Resolved(d), q.kind, q.arg)
           ELSE IF q.warning # ""
           THEN LogAndReturn(h, d, <<"warning", q.warning, d>>)
           ELSE Return(h, d)
    /\ UNCHANGED <<hostVars, otpVars, plugin, api, stopThread, worker, props, comm, vec, remote, cbs,
                   updater, bg, sync, applied, nStarts, nPush, nUpdates>>

\* ------------------------------------------- get_smartrent_devices (544-573)
\* The filters the host's device dialogs pass.
DeviceFilters == {"lock", "thermostat"}

\* The list generator of the device dialogs. self.api is read at line 548:
\* __init__ never assigns it, so before a login has been stored the read
\* raises AttributeError and the "is None" branch is not reached.
get_smartrent_devices(filter) ==
    /\ plugin = "started" /\ ctl = IdleCtl
    /\ nActions < hostCalls
    /\ nActions' = nActions + 1
    /\ LET h == "get_smartrent_devices"
           found == { r \in RemoteIds :
                        \/ filter = "lock" /\ DeviceClass[r] = "DoorLock"
                        \/ filter = "thermostat" /\ DeviceClass[r] = "Thermostat" }
       IN  IF api = "unset"
           THEN last' = Raised(h, "", "AttributeError")
           ELSE last' = Returned(h, "", IF found = {} THEN "disabled" ELSE "devices")
    /\ UNCHANGED <<hostVars, otpVars, plugin, api, stopThread, worker, ops, log, props,
                   comm, vec, remote, cbs, updater, ctl, bg, sync, applied, nStarts, nPush,
                   nUpdates>>

\* ------------------------------------------------------------ specification
\* The plugin's own lifecycle and the worker thread.
NextLifecycle ==
    \/ Startup
    \/ StartupResult
    \/ StopConcurrentThread
    \/ Shutdown
    \/ WorkerStart
    \/ WorkerPoll
    \/ BeginOp
    \/ \E i \in DOMAIN ops : \E res \in {"ok", "exception"} : CompleteOp(i, res)

\* Starting a device, with its initial update on the control thread.
NextStart ==
    \/ \E d \in LocalDevices : DeviceStartComm(d)
    \/ \E t \in Threads : SyncOnline(t)
    \/ \E t \in Threads : SyncRead(t)
    \/ \E t \in Threads : SyncBranch(t)
    \/ \E t \in Threads : SyncImage(t)
    \/ \E t \in Threads : SyncStatus(t)
    \/ \E t \in Threads : SyncCommit(t)
    \/ DeviceStartCommRegister
    \/ DeviceStartCommSubmit

\* Stopping and rebinding devices, and the push notifications.
NextDevices ==
    \/ \E d \in LocalDevices : DeviceStopComm(d)
    \/ \E d \in LocalDevices : \E b \in Bindings : DeviceUpdated(d, b)
    \/ \E r \in RemoteIds : \E s \in Snapshots(r) : Push(r, s)
    \/ Callback

\* The action handlers.
NextActions ==
    \/ \E d \in LocalDevices : \E a \in DeviceActions : actionControlDevice(d, a)
    \/ \E d \in LocalDevices : \E a \in UniversalActions : actionControlUniversal(d, a)
    \/ \E d \in LocalDevices : \E c \in ThermostatCommands : actionControlThermostat(d, c)

Next ==
    \/ NextLifecycle \/ NextStart \/ NextDevices \/ NextActions
    \/ Tick \/ Serialize
    \/ \E r \in RemoteIds : Renotify(r)
    \/ \E f \in DeviceFilters : get_smartrent_devices(f)

Spec == Init /\ [][Next]_vars

\* The device lifecycle and the state synchronisation, without host actions.
NextSync == NextLifecycle \/ NextStart \/ NextDevices
SpecSync == Init /\ [][NextSync]_vars

\* The handlers that submit operations, without stops, rebinding or pushes.
NextDispatch == NextLifecycle \/ NextStart \/ NextActions
SpecDispatch == Init /\ [][NextDispatch]_vars

\* The state when startup has returned with a session: the login is done, no
\* device has been started yet and every local device is bound to a remote
\* device its type accepts.
InitStarted ==
    /\ configured = TRUE /\ tfa_secret = "S1"
    /\ plugin = "started" /\ api = "session"
    /\ stopThread = FALSE /\ worker = "running"
    /\ ops = <<[origin |-> "startup", kind |-> "async_login", rdev |-> NoBinding,
                status |-> "ok"]>>
    /\ log = {<<"info", "connecting", "">>, <<"info", "connected", "">>}
    /\ deviceTypeId \in DeviceTypeChoices
    /\ props \in { b \in [LocalDevices -> RemoteIds] :
                      \A d \in LocalDevices : ~TypeMismatch(deviceTypeId[d], DeviceClass[b[d]]) }
    /\ comm = [d \in LocalDevices |-> "stopped"]
    /\ vec = [d \in LocalDevices |-> DefaultVec]
    /\ cbs = [r \in RemoteIds |-> <<>>]
    /\ updater = [r \in RemoteIds |-> FALSE]
    /\ ctl = IdleCtl
    /\ bg = <<>>
    /\ sync = [t \in Threads |-> NoFrame]
    /\ last = Returned("startup", "", "None")
    /\ applied = [d \in LocalDevices |-> NotApplied]
    /\ tfa_token = [secret |-> "S1", created |-> 0]
    /\ clock = 0
    /\ sent = <<>>
    /\ nStarts = 0 /\ nPush = 0 /\ nActions = 0 /\ nUpdates = 0

\* update_device_from_smartrent applied to remote records that do not change:
\* the remote devices report any of their attribute combinations and events
\* arrive that leave the attributes as they are.
InitApply ==
    /\ InitStarted
    /\ hostCalls = MaxActions
    /\ remote \in { f \in [RemoteIds -> AllLockSnapshots \cup AllThermostatSnapshots] :
                       \A r \in RemoteIds : f[r] \in AllSnapshots(r) }

NextApply ==
    \/ NextStart
    \/ BeginOp
    \/ \E r \in RemoteIds : Renotify(r)
    \/ Callback

SpecApply == InitApply /\ [][NextApply]_vars

\* Started devices under push notifications that change the remote records
\* while the control thread starts, stops and restarts devices.
InitRace ==
    /\ InitStarted
    /\ hostCalls = MaxActions
    /\ remote \in { f \in [RemoteIds -> LockSnapshots \cup ThermostatSnapshots] :
                       \A r \in RemoteIds : f[r] \in Snapshots(r) }

NextRace ==
    \/ NextStart
    \/ BeginOp
    \/ \E d \in LocalDevices : DeviceStopComm(d)
    \/ \E r \in RemoteIds : \E s \in Snapshots(r) : Push(r, s)
    \/ Callback

SpecRace == InitRace /\ [][NextRace]_vars

\* Every handler that reads the session: device start, the action handlers
\* and the device list generator.
NextSession ==
    \/ NextDispatch
    \/ \E f \in DeviceFilters : get_smartrent_devices(f)

SpecSession == Init /\ [][NextSession]_vars

\* Thermostat commands dispatched one after another, with no push
\* notification in between: the host makes one call more than MaxActions.
InitSetpoint ==
    /\ InitStarted
    /\ hostCalls = MaxActions + 1
    /\ remote \in { f \in [RemoteIds -> LockSnapshots \cup ThermostatSnapshots] :
                       \A r \in RemoteIds : f[r] \in Snapshots(r) }

NextSetpoint ==
    \/ NextStart
    \/ BeginOp
    \/ \E i \in DOMAIN ops : \E res \in {"ok", "exception"} : CompleteOp(i, res)
    \/ \E d \in LocalDevices : \E c \in ThermostatCommands : actionControlThermostat(d, c)

SpecSetpoint == InitSetpoint /\ [][NextSetpoint]_vars

\* The plugin's lifecycle under a running clock, with the requests that carry
\* the one-time code.
InitOtp == InitPlugin /\ tfa_secret \in Secrets /\ hostCalls = MaxActions
NextOtp == NextLifecycle \/ Tick \/ Serialize
SpecOtp == InitOtp /\ [][NextOtp]_vars


\* ================================================================== claims
ActionHandlers == {"actionControlDevice", "actionControlUniversal", "actionControlThermostat"}

\* Everything submitted has been processed: no handler or update is in
\* progress, no callback is due and every operation is done.
Quiescent ==
    /\ ctl = IdleCtl /\ bg = <<>>
    /\ \A t \in Threads : ~sync[t].active
    /\ \A i \in DOMAIN ops : Done(ops[i].status)

\* The fields one completed update_device_from_smartrent call leaves in the
\* state vector of a device of the given type when the remote record reads as
\* s throughout the call.
SyncedKeys(type) ==
    BatchKeys(type) \cup (IF type = "lock" THEN {"stateImage", "lockStatus"} ELSE {})

VectorFrom(type, s) ==
    [k \in SyncedKeys(type) |->
        CASE k = "stateImage" -> (IF s.locked THEN "Locked" ELSE "Unlocked")
          [] k = "lockStatus" -> (IF s.locked THEN "locked" ELSE "unlocked")
          [] OTHER -> ReadValue(k, s)]

\* The state of the background execution context, and its place in the order
\* Created, Running, Draining, Stopped.
ContextState ==
    CASE worker = "exited" -> "Stopped"
      [] worker = "created" -> "Created"
      [] worker = "running" /\ stopThread -> "Draining"
      [] OTHER -> "Running"

ContextRank(c) ==
    CASE c = "Created" -> 0 [] c = "Running" -> 1 [] c = "Draining" -> 2 [] OTHER -> 3

\* C1: for every local device, at most one execution of
\* update_device_from_smartrent is in progress at any time, whichever thread
\* started it.
C1_OneUpdateInProgress ==
    \A d \in LocalDevices :
        Cardinality({ t \in Threads : sync[t].active /\ sync[t].dev = d }) <= 1

\* C2: while a local device is stopped (deviceStopComm has returned and the
\* device has not been started again), a push notification calls no update
\* handler of that device and the device's state vector does not change.
C2_StoppedDeviceUntouched ==
    [][\A d \in LocalDevices :
          (comm[d] = "stopped" /\ comm'[d] = "stopped")
              => /\ vec'[d] = vec[d]
                 /\ nPush' # nPush => \A i \in DOMAIN bg' : bg'[i].dev # d]_vars

\* C3: once every submitted operation and push notification has been
\* processed, the state vector of every local device equals the vector
\* derived from the remote record most recently applied to it, and a started
\* device holds values of the remote device it is bound to only.
C3_FinalStateIsOwnSnapshot ==
    Quiescent =>
        \A d \in LocalDevices :
            applied[d].rdev # NoBinding =>
                /\ \A k \in SyncedKeys(deviceTypeId[d]) :
                        vec[d][k] = VectorFrom(deviceTypeId[d], applied[d].snap)[k]
                /\ comm[d] = "started" => applied[d].rdev = props[d]

\* C4: an update_device_from_smartrent call that finds the local device's type
\* not to match the class of the remote device is logged and skipped: it
\* writes nothing to the state vector and no error reaches its caller.
C4_MismatchLoggedAndSkipped ==
    [][\A t \in Threads :
          ( /\ sync[t].active /\ sync[t].pc = "online"
            /\ TypeMismatch(deviceTypeId[sync[t].dev], DeviceClass[sync[t].rdev])
            /\ ~sync'[t].active )
              => /\ vec' = vec
                 /\ last'.outcome # "raised"
                 /\ <<"error", "type mismatch", sync[t].dev>> \in log']_vars

\* C5: when a session exists and the binding of a local device resolves to no
\* device of its directory, deviceStartComm returns False, changes no state
\* vector, registers no callback and submits no operation.
C5_UnresolvedStartFails ==
    [][\A d \in LocalDevices :
          ( /\ nStarts' = nStarts + 1 /\ last'.dev = d
            /\ api = "session" /\ props[d] \notin RemoteIds )
              => /\ last' = Returned("deviceStartComm", d, "False")
                 /\ vec' = vec /\ cbs' = cbs /\ ops' = ops
                 /\ ctl' = IdleCtl /\ sync' = sync /\ comm' = comm]_vars

C5_Witness ==
    /\ last = Returned("deviceStartComm", last.dev, "False")
    /\ api = "session"
    /\ props[last.dev] \notin RemoteIds

\* C6: deviceStartComm returns a boolean, True exactly when the device was
\* started (binding resolved, initial state applied, callback registered,
\* updater start submitted) and False otherwise.
C6_ReturnsStartedBoolean ==
    (last.handler = "deviceStartComm" /\ last.outcome = "returned")
        => /\ last.value \in {"True", "False"}
           /\ (last.value = "True") <=> (comm[last.dev] = "started")

\* C7: every operation submitted by an action handler that ended with an
\* exception has a log entry for that failure (the code has no later point at
\* which it could still be written: the future is dropped by the handler).
C7_FailedOperationLogged ==
    \A i \in DOMAIN ops :
        (ops[i].origin \in ActionHandlers /\ ops[i].status = "exception")
            => \E e \in log : e[2] = "operation failed"

\* C8: the control thread waits for the result of a submitted operation only
\* in startup (the login): the action handlers and deviceStartComm return
\* without waiting.
C8_OnlyStartupWaits == ctl.pc = "result" => ctl.op = "startup"

\* An action handler has returned to the host while the operation it
\* submitted is still queued on a worker that has already exited.
C8_Witness ==
    /\ ctl = IdleCtl /\ worker = "exited"
    /\ last.handler \in ActionHandlers /\ last.outcome = "returned"
    /\ last.request.kind # ""
    /\ ops[Len(ops)].origin = last.handler /\ ops[Len(ops)].status = "queued"

\* C9: the execution context only moves forward through Created, Running,
\* Draining, Stopped, never leaves Stopped, and a submission made once it is
\* Stopped is refused: it adds no pending operation.
C9_NoSubmissionAfterStop ==
    [][ /\ ContextRank(ContextState') >= ContextRank(ContextState)
        /\ ContextState = "Stopped" => Len(ops') = Len(ops) ]_vars

\* C10: when shutdown has returned the shutdown flag is set and the worker
\* thread has terminated.
C10_ShutdownJoinsWorker == plugin = "stopped" => (stopThread /\ worker = "exited")

\* C11: operations submitted through Plugin.run begin execution on the worker
\* in submission order: an operation takes its first step only when every
\* operation submitted before it has taken its own; completion may come in
\* another order.
C11_StartInSubmissionOrder ==
    [][\A i \in DOMAIN ops :
          (ops[i].status = "queued" /\ ops'[i].status # "queued")
              => \A j \in 1..(i - 1) : ops[j].status # "queued"]_vars

\* An operation submitted earlier is still suspended on I/O while one
\* submitted after it has begun and completed.
C11_Witness ==
    \E i, j \in DOMAIN ops :
        i < j /\ ops[i].status = "running" /\ ops[j].status = "ok"

\* A handler call on device d that found a session and resolved the binding.
HandledFor(h, d) ==
    /\ nActions' = nActions + 1
    /\ last'.handler = h /\ last'.dev = d
    /\ api = "session" /\ props[d] \in RemoteIds

\* C12: a command against a bound remote device of an incompatible category
\* (a device action on a local lock whose remote device is not a door lock, any
\* thermostat action on a device whose remote device is not a thermostat) logs
\* an error, submits no operation and returns.
C12_IncompatibleCategoryRefused ==
    [][\A d \in LocalDevices :
          /\ ( /\ HandledFor("actionControlDevice", d)
               /\ deviceTypeId[d] = "lock" /\ DeviceClass[props[d]] # "DoorLock" )
                => /\ <<"error", "not a lock", d>> \in log'
                   /\ ops' = ops /\ vec' = vec
                   /\ last' = Returned("actionControlDevice", d, "None")
          /\ ( /\ HandledFor("actionControlThermostat", d)
               /\ DeviceClass[props[d]] # "Thermostat" )
                => /\ <<"error", "not a thermostat", d>> \in log'
                   /\ ops' = ops /\ vec' = vec
                   /\ last' = Returned("actionControlThermostat", d, "None")]_vars

\* A device action on a local lock bound to the remote thermostat has returned.
C12_Witness ==
    /\ last = Returned("actionControlDevice", last.dev, "None")
    /\ deviceTypeId[last.dev] = "lock"
    /\ api = "session" /\ props[last.dev] \in RemoteIds
    /\ DeviceClass[props[last.dev]] = "Thermostat"
    /\ <<"error", "not a lock", last.dev>> \in log

\* The keys of INDIGO_SMARTRENT_HVAC_MODES (44-49) and of
\* INDIGO_SMARTRENT_HVAC_FAN_MODES (30-33).
HvacModeKeys == {"Cool", "Heat", "HeatCool", "Off"}
FanModeKeys == {"AlwaysOn", "Auto"}

UnmappedMode(c) ==
    \/ c.thermostatAction = "SetHvacMode" /\ c.actionMode \notin HvacModeKeys
    \/ c.thermostatAction = "SetFanMode" /\ c.actionMode \notin FanModeKeys

\* C13: a SetHvacMode or SetFanMode command, dispatched to a device bound to a
\* remote thermostat, whose mode is not a key of the Indigo-to-SmartRent table
\* logs a warning, submits no remote call and leaves the state vectors
\* unchanged.
C13_UnmappedModeWarns ==
    [][\A d \in LocalDevices : \A c \in { x \in ThermostatCommands : UnmappedMode(x) } :
          ( /\ HandledFor("actionControlThermostat", d)
            /\ DeviceClass[props[d]] = "Thermostat"
            /\ actionControlThermostat(d, c) )
              => /\ \E e \in log' : e[1] = "warning" /\ e[3] = d
                 /\ ops' = ops /\ vec' = vec
                 /\ last' = Returned("actionControlThermostat", d, "None")]_vars

\* A thermostat command with an unmapped mode has returned with its warning
\* logged and nothing submitted for it.
C13_Witness ==
    /\ last = Returned("actionControlThermostat", last.dev, "None")
    /\ api = "session" /\ props[last.dev] \in RemoteIds
    /\ DeviceClass[props[last.dev]] = "Thermostat"
    /\ <<"warning", "unsupported hvac mode", last.dev>> \in log
    /\ \A i \in DOMAIN ops : ops[i].origin # "actionControlThermostat"

\* C14: the one-time code placed in a request is the code of the interval in
\* which the request is serialized, whatever the interval in which the
\* credential object was constructed and however often it is serialized.
C14_CodeOfSerializationTime ==
    \A i \in DOMAIN sent : sent[i].code = TotpCode(tfa_secret, TimeStep(sent[i].at))

\* The credential object was serialized twice, in two different intervals,
\* both later than the interval of its construction.
C14_Witness ==
    /\ Len(sent) = 2
    /\ TimeStep(tfa_token.created) < TimeStep(sent[1].at)
    /\ TimeStep(sent[1].at) < TimeStep(sent[2].at)
    /\ sent[1].code # sent[2].code

\* C15: update_device_from_smartrent is idempotent: once a remote record has
\* been applied to a local device, applying the same unchanged record again
\* changes nothing in the device's state vector, at any of its writes.
C15_SyncIdempotent ==
    [][\A d \in LocalDevices :
          ( /\ applied[d].rdev = props[d]
            /\ applied[d].snap = remote[props[d]]
            /\ remote' = remote )
              => vec'[d] = vec[d]]_vars

\* The lock L1 was started and then an event of its remote device, the only
\* one with an updater, has run the update a second time.
C15_Witness ==
    /\ nPush = 1 /\ BgIdle
    /\ ~updater[2] /\ updater[1]
    /\ deviceTypeId["L1"] = "lock" /\ comm["L1"] = "started"
    /\ applied["L1"] = [rdev |-> 1, snap |-> remote[1]]
    /\ vec["L1"].stateImage = "Unlocked"

\* C16: a completed sync of a local lock bound to a remote door lock leaves
\* onOffState true, lockStatus "locked" and the Locked image when the record
\* says locked, and false, "unlocked" and the Unlocked image when it does not;
\* batteryLevel and online hold the record's values.
C16_LockSync ==
    \A d \in LocalDevices :
        ( /\ deviceTypeId[d] = "lock" /\ DeviceClass[props[d]] = "DoorLock"
          /\ applied[d].rdev = props[d] /\ applied[d].snap = remote[props[d]]
          /\ \A t \in Threads : ~(sync[t].active /\ sync[t].dev = d) )
            => LET s == remote[props[d]]
                   v == vec[d]
               IN  /\ s.locked => /\ v.onOffState = TRUE
                                   /\ v.lockStatus = "locked"
                                   /\ v.stateImage = "Locked"
                   /\ ~s.locked => /\ v.onOffState = FALSE
                                    /\ v.lockStatus = "unlocked"
                                    /\ v.stateImage = "Unlocked"
                   /\ v.batteryLevel = s.battery_level
                   /\ v.online = s.online

\* The lock L1 has been synchronised with a record that reports an unlocked,
\* offline door lock with a low battery.
C16_Witness ==
    /\ deviceTypeId["L1"] = "lock" /\ props["L1"] = 1
    /\ applied["L1"] = [rdev |-> 1, snap |-> remote[1]]
    /\ \A t \in Threads : ~sync[t].active
    /\ remote[1] = LockSnap(FALSE, FALSE, 15)
    /\ vec["L1"].lockStatus = "unlocked" /\ vec["L1"].batteryLevel = 15

\* The values the claim gives for the two mapped fields.
ExpectedOperationMode(mode) ==
    CASE mode = "cool" -> "Cool" [] mode = "heat" -> "Heat"
      [] mode = "auto" -> "HeatCool" [] mode = "off" -> "Off"

ExpectedFanMode(fan_mode) ==
    CASE fan_mode = "on" -> "AlwaysOn" [] fan_mode = "auto" -> "Auto"

\* C17: a completed sync of a local thermostat leaves hvacOperationMode and
\* hvacFanMode as the fixed tables map the record's mode and fan mode (auto to
\* heat-cool, on to always-on), hvacHeaterIsOn and hvacCoolerIsOn as the
\* operating state says, and the two setpoints, the temperature and the
\* humidity as the record holds them.
C17_ThermostatSync ==
    \A d \in LocalDevices :
        ( /\ deviceTypeId[d] = "thermostat" /\ DeviceClass[props[d]] = "Thermostat"
          /\ applied[d].rdev = props[d] /\ applied[d].snap = remote[props[d]]
          /\ \A t \in Threads : ~(sync[t].active /\ sync[t].dev = d) )
            => LET s == remote[props[d]]
                   v == vec[d]
               IN  /\ v.hvacOperationMode = ExpectedOperationMode(s.mode)
                   /\ v.hvacFanMode = ExpectedFanMode(s.fan_mode)
                   /\ v.hvacHeaterIsOn = (s.operating_state = "heating")
                   /\ v.hvacCoolerIsOn = (s.operating_state = "cooling")
                   /\ v.setpointCool = s.cooling_setpoint
                   /\ v.setpointHeat = s.heating_setpoint
                   /\ v.temperatureInput1 = s.current_temp
                   /\ v.humidityInput1 = s.current_humidity
                   /\ s = ThermostatSnap(TRUE, "heat", "auto", "heating", 72, 68, 66, 40)
                        => /\ v.hvacOperationMode = "Heat" /\ v.hvacFanMode = "Auto"
                           /\ v.hvacHeaterIsOn /\ ~v.hvacCoolerIsOn
                           /\ v.setpointCool = 72 /\ v.setpointHeat = 68
                           /\ v.temperatureInput1 = 66 /\ v.humidityInput1 = 40

\* The thermostat L2 has been synchronised with a record in mode auto with
\* the fan on and the cooler running.
C17_Witness ==
    /\ props["L2"] = 2
    /\ applied["L2"] = [rdev |-> 2, snap |-> remote[2]]
    /\ \A t \in Threads : ~sync[t].active
    /\ remote[2].mode = "auto" /\ remote[2].fan_mode = "on"
    /\ remote[2].operating_state = "cooling"
    /\ vec["L2"].hvacOperationMode = "HeatCool" /\ vec["L2"].hvacFanMode = "AlwaysOn"
    /\ vec["L2"].hvacCoolerIsOn

\* C18: for a local device whose type is neither thermostat nor lock a sync
\* writes the online flag and nothing else, whatever the class of the remote
\* device: the step that ends the sync sets online to the record's value and
\* no step changes any other field.
C18_OtherTypeWritesOnlineOnly ==
    [][\A d \in LocalDevices :
          deviceTypeId[d] \notin {"thermostat", "lock"}
              => /\ \A k \in Keys \ {"online"} : vec'[d][k] = vec[d][k]
                 /\ \A t \in Threads :
                        ( /\ sync[t].active /\ sync[t].dev = d /\ ~sync'[t].active
                          /\ remote[sync[t].rdev] = sync[t].snap0 )
                            => vec'[d].online = remote[sync[t].rdev].online]_vars

\* The sensor L1, bound to the remote thermostat, has been synchronised: its
\* online flag is set and every other field is as it was.
C18_Witness ==
    /\ deviceTypeId["L1"] = "sensor" /\ props["L1"] = 2
    /\ applied["L1"] = [rdev |-> 2, snap |-> remote[2]]
    /\ remote[2].online
    /\ vec["L1"] = [DefaultVec EXCEPT !.online = TRUE]

\* C19: whenever no sync of a local lock is in progress its state vector is
\* consistent: onOffState is true exactly when lockStatus is "locked".
C19_LockVectorConsistent ==
    \A d \in LocalDevices :
        ( /\ deviceTypeId[d] = "lock"
          /\ \A t \in Threads : ~(sync[t].active /\ sync[t].dev = d)
          /\ \A i \in DOMAIN bg : bg[i].dev # d )
            => (vec[d].onOffState <=> vec[d].lockStatus = "locked")

\* C20: a local thermostat never shows the cooler and the heater on together.
C20_NotHeatingAndCooling ==
    \A d \in LocalDevices :
        deviceTypeId[d] = "thermostat"
            => ~(vec[d].hvacCoolerIsOn /\ vec[d].hvacHeaterIsOn)

\* C21: whenever deviceStartComm, an action handler or the device list
\* generator reads the session's device directory, startup has stored a
\* session, also after a startup that found the configuration incomplete.
C21_SessionExistsWhenUsed ==
    [][(nStarts' # nStarts \/ nActions' # nActions) => api = "session"]_vars

\* The relative setpoint commands, the signed change each asks for, the
\* setpoint it is about and the remote call that sets it.
RelativeCommands ==
    { c \in ThermostatCommands :
        c.thermostatAction \in {"DecreaseCoolSetpoint", "IncreaseCoolSetpoint",
                                "DecreaseHeatSetpoint", "IncreaseHeatSetpoint"} }

SignedDelta(c) ==
    IF c.thermostatAction \in {"IncreaseCoolSetpoint", "IncreaseHeatSetpoint"}
    THEN c.actionValue ELSE 0 - c.actionValue

SetpointKey(c) ==
    IF c.thermostatAction \in {"DecreaseCoolSetpoint", "IncreaseCoolSetpoint"}
    THEN "setpointCool" ELSE "setpointHeat"

SetCallOf(c) ==
    IF SetpointKey(c) = "setpointCool"
    THEN "async_set_cooling_setpoint" ELSE "async_set_heating_setpoint"

\* The values an absolute setpoint command can have requested.
AbsoluteValues(kind) ==
    { c.actionValue : c \in { x \in ThermostatCommands :
        \/ kind = "async_set_cooling_setpoint" /\ x.thermostatAction = "SetCoolSetpoint"
        \/ kind = "async_set_heating_setpoint" /\ x.thermostatAction = "SetHeatSetpoint" } }

\* C22: a relative setpoint command with delta d on a device bound to a
\* remote thermostat submits exactly one set call, for the local setpoint at
\* dispatch plus or minus d; and when the call before it was the same command
\* on the same device, with the local setpoint not updated since, the two
\* together request a change of 2*d from the starting setpoint.
C22_RelativeSetpointAccumulates ==
    [][\A d \in LocalDevices : \A c \in RelativeCommands :
          ( /\ HandledFor("actionControlThermostat", d)
            /\ DeviceClass[props[d]] = "Thermostat"
            /\ actionControlThermostat(d, c) )
              => LET start == vec[d][SetpointKey(c)]
                     repeated ==
                        /\ last = [Returned("actionControlThermostat", d, "None") EXCEPT
                                     !.request = [kind |-> SetCallOf(c),
                                                  arg |-> [NoArg EXCEPT
                                                             !.n = start + SignedDelta(c)]]]
                        /\ start + SignedDelta(c) \notin AbsoluteValues(SetCallOf(c))
                 IN  /\ Len(ops') = Len(ops) + 1
                     /\ ops'[Len(ops')].kind = SetCallOf(c)
                     /\ last'.request.kind = SetCallOf(c)
                     /\ last'.request.arg.n =
                            IF repeated THEN start + 2 * SignedDelta(c)
                            ELSE start + SignedDelta(c)]_vars

====
